---- MODULE Spec2Model ----
(***************************************************************************)
(* A model of src/bot.py: a Telegram bot that downloads media for a user.  *)
(* The persistent store (class Storage), the three update handlers         *)
(* (start_handler, callback_handler, message_handler), the download        *)
(* pipeline (handle_download) with media acquisition (download_media) and  *)
(* transcoding (ffmpeg_convert), and the broadcast loop.                    *)
(*                                                                         *)
(* Text is a sequence of characters, one string per code point.  A code    *)
(* point outside ASCII is written by name: "cyr_o" is the Cyrillic small   *)
(* letter o, "CYR_O" its capital, "emoji_inbox" the inbox-tray emoji.      *)
(***************************************************************************)
EXTENDS Integers, Sequences, FiniteSets, TLC

VARIABLES
    cfg,          \* Config: owner_id, max_file_size_mb (load_config)
    users,        \* table users: user_id -> profile row
    user_states,  \* table user_states: user_id -> state
    caption,      \* table bot_settings, key media_caption
    pipe,         \* the handle_download call in flight (or its last run)
    out,          \* the transport calls of the handler running (or run
                  \* last), in order
    ret           \* the last direct Storage call and its return value

vars == <<cfg, users, user_states, caption, pipe, out, ret>>

----------------------------------------------------------------------------
(* Bounds *)

NumIds == 2          \* identities 1..NumIds
MaxFileSizeMb == 2   \* MAX_FILE_SIZE_MB of the environment, in megabytes
MaxMtime == 2        \* file modification times are drawn from 1..MaxMtime

Ids == 1..NumIds

(* cfg.owner_id: OWNER_ID of the environment. *)
OwnerId == 1

(* The bot's username, as get_me() reports it. *)
BotUsername == <<"B", "o", "t">>

----------------------------------------------------------------------------
(* Text *)

BTN_DOWNLOAD_RU == <<"emoji_inbox", " ", "CYR_S", "cyr_k", "cyr_a", "cyr_ch", "cyr_a", "cyr_t", "cyr_soft", " ", "cyr_v", "cyr_i", "cyr_d", "cyr_e", "cyr_o", "/", "cyr_m", "cyr_e", "cyr_d", "cyr_i", "cyr_a">>
BTN_DOWNLOAD_EN == <<"emoji_inbox", " ", "D", "o", "w", "n", "l", "o", "a", "d", " ", "v", "i", "d", "e", "o", "/", "m", "e", "d", "i", "a">>
BTN_FORMAT_RU == <<"emoji_clapper", " ", "CYR_F", "cyr_o", "cyr_r", "cyr_m", "cyr_a", "cyr_t">>
BTN_FORMAT_EN == <<"emoji_clapper", " ", "F", "o", "r", "m", "a", "t">>
BTN_LANGUAGE_RU == <<"emoji_globe", " ", "CYR_YA", "cyr_z", "cyr_y", "cyr_k">>
BTN_LANGUAGE_EN == <<"emoji_globe", " ", "L", "a", "n", "g", "u", "a", "g", "e">>
BTN_HELP_RU == <<"emoji_info", "vs16", " ", "CYR_P", "cyr_o", "cyr_m", "cyr_o", "cyr_sch", "cyr_soft">>
BTN_HELP_EN == <<"emoji_info", "vs16", " ", "H", "e", "l", "p">>
BTN_CAPTION_RU == <<"emoji_memo", " ", "CYR_T", "cyr_e", "cyr_k", "cyr_s", "cyr_t", " ", "cyr_p", "cyr_o", "cyr_d", " ", "cyr_v", "cyr_i", "cyr_d", "cyr_e", "cyr_o">>
BTN_CAPTION_EN == <<"emoji_memo", " ", "M", "e", "d", "i", "a", " ", "c", "a", "p", "t", "i", "o", "n">>
BTN_BROADCAST_RU == <<"emoji_megaphone", " ", "CYR_R", "cyr_a", "cyr_s", "cyr_s", "cyr_y", "cyr_l", "cyr_k", "cyr_a">>
BTN_BROADCAST_EN == <<"emoji_megaphone", " ", "B", "r", "o", "a", "d", "c", "a", "s", "t">>

KW_CANCEL == <<"c", "a", "n", "c", "e", "l">>
KW_OTMENA == <<"cyr_o", "cyr_t", "cyr_m", "cyr_e", "cyr_n", "cyr_a">>
CMD_START == <<"/", "s", "t", "a", "r", "t">>

(* Messages a user sends in the runs explored. *)
TXT_CANCEL_MIXED == <<"C", "a", "n", "c", "e", "l">>
TXT_OTMENA_UPPER == <<"CYR_O", "CYR_T", "CYR_M", "CYR_E", "CYR_N", "CYR_A">>
TXT_HELLO == <<"h", "i">>
TXT_URL == <<"a", " ", "h", "t", "t", "p", ":", "/", "/", "x", "/", "1", " ", "b">>
TXT_URL_UPPER == <<"H", "T", "T", "P", "S", ":", "/", "/", "X">>
TXT_SCHEME_ONLY == <<"h", "t", "t", "p", ":", "/", "/">>
TXT_MENTION_URL == <<"@", "B", "O", "T", " ", "h", "t", "t", "p", ":", "/", "/", "x", "/", "1">>
TXT_MENTION_ONLY == <<"@", "b", "o", "t", " ", "h", "i">>
TXT_URL_ONLY == <<"h", "t", "t", "p", ":", "/", "/", "x", "/", "1">>
TXT_BLANK == <<" ", " ">>

TXT_PADDED == <<" ", "h", "i", " ">>

Whitespace == {" ", "TAB", "LF"}

(* str.lower(), one code point at a time. *)
LowerChar(c) ==
    CASE c = "A" -> "a" [] c = "B" -> "b" [] c = "C" -> "c" [] c = "D" -> "d"
      [] c = "E" -> "e" [] c = "F" -> "f" [] c = "G" -> "g" [] c = "H" -> "h"
      [] c = "I" -> "i" [] c = "J" -> "j" [] c = "K" -> "k" [] c = "L" -> "l"
      [] c = "M" -> "m" [] c = "N" -> "n" [] c = "O" -> "o" [] c = "P" -> "p"
      [] c = "Q" -> "q" [] c = "R" -> "r" [] c = "S" -> "s" [] c = "T" -> "t"
      [] c = "U" -> "u" [] c = "V" -> "v" [] c = "W" -> "w" [] c = "X" -> "x"
      [] c = "Y" -> "y" [] c = "Z" -> "z"
      [] c = "CYR_A" -> "cyr_a" [] c = "CYR_E" -> "cyr_e"
      [] c = "CYR_F" -> "cyr_f" [] c = "CYR_M" -> "cyr_m"
      [] c = "CYR_N" -> "cyr_n" [] c = "CYR_O" -> "cyr_o"
      [] c = "CYR_P" -> "cyr_p" [] c = "CYR_R" -> "cyr_r"
      [] c = "CYR_S" -> "cyr_s" [] c = "CYR_T" -> "cyr_t"
      [] c = "CYR_YA" -> "cyr_ya"
      [] OTHER -> c

LowerChars(s) == [i \in 1..Len(s) |-> LowerChar(s[i])]

(* str.strip(): leading and trailing whitespace removed. *)
RECURSIVE LStrip(_)
LStrip(s) ==
    IF s /= <<>> /\ Head(s) \in Whitespace THEN LStrip(Tail(s)) ELSE s

RECURSIVE RStrip(_)
RStrip(s) ==
    IF s /= <<>> /\ s[Len(s)] \in Whitespace
    THEN RStrip(SubSeq(s, 1, Len(s) - 1)) ELSE s

StripChars(s) == RStrip(LStrip(s))

(* Whether the literal lit stands in s at position i. *)
LitAt(s, i, lit) ==
    /\ i + Len(lit) - 1 <= Len(s)
    /\ \A k \in 1..Len(lit) : s[i + k - 1] = lit[k]

(* `sub in s` of Python: sub is a substring of s. *)
Contains(s, sub) == \E i \in 1..(Len(s) + 1) : LitAt(s, i, sub)

(* URL_RE = https?://\S+ with re.IGNORECASE: the number of characters the
   pattern matches at position i of s, 0 when it does not match there; low
   is s in lower case. *)
HTTP == <<"h", "t", "t", "p", ":", "/", "/">>
HTTPS == <<"h", "t", "t", "p", "s", ":", "/", "/">>

RECURSIVE NonSpaceRun(_, _)
NonSpaceRun(s, i) ==
    IF i <= Len(s) /\ s[i] \notin Whitespace THEN 1 + NonSpaceRun(s, i + 1) ELSE 0

UrlMatchLen(s, low, i) ==
    LET prefix == IF LitAt(low, i, HTTPS) THEN Len(HTTPS)
                  ELSE IF LitAt(low, i, HTTP) THEN Len(HTTP) ELSE 0
        run == NonSpaceRun(s, i + prefix)
    IN  IF prefix > 0 /\ run > 0 THEN prefix + run ELSE 0

NoUrl == <<>>

(* URL_RE.search(text): the leftmost match, NoUrl for no match. *)
URL_RE_search(text) ==
    LET low == LowerChars(text)
        starts == {i \in 1..Len(text) : UrlMatchLen(text, low, i) > 0}
    IN  IF starts = {} THEN NoUrl
        ELSE LET i == CHOOSE j \in starts : \A k \in starts : j <= k
             IN  SubSeq(text, i, i + UrlMatchLen(text, low, i) - 1)

(* Every text of the runs explored: the texts named above and what strip()
   makes of them.  Strip, Lower and extract_url are computed once for each
   and looked up from then on. *)
NamedTexts ==
    {BTN_DOWNLOAD_RU, BTN_DOWNLOAD_EN, BTN_FORMAT_RU, BTN_FORMAT_EN,
     BTN_LANGUAGE_RU, BTN_LANGUAGE_EN, BTN_HELP_RU, BTN_HELP_EN,
     BTN_CAPTION_RU, BTN_CAPTION_EN, BTN_BROADCAST_RU, BTN_BROADCAST_EN,
     KW_CANCEL, KW_OTMENA, CMD_START, TXT_CANCEL_MIXED, TXT_OTMENA_UPPER,
     TXT_HELLO, TXT_URL, TXT_URL_UPPER, TXT_SCHEME_ONLY, TXT_MENTION_URL,
     TXT_MENTION_ONLY, TXT_URL_ONLY, TXT_BLANK, TXT_PADDED, BotUsername}

Texts == NamedTexts \cup {StripChars(x) : x \in NamedTexts}

StripTable == [x \in Texts |-> StripChars(x)]
LowerTable == [x \in Texts |-> LowerChars(x)]
UrlTable == [x \in Texts |-> URL_RE_search(x)]

Strip(s) == StripTable[s]

Lower(s) == LowerTable[s]

(* extract_url: the match of URL_RE in text, or None. *)
extract_url(text) == UrlTable[text]

----------------------------------------------------------------------------
(* class Storage.  A table is a function from the keys of its rows; U is the
   users table, S the user_states table. *)

Languages == {"ru", "en"}
Formats == {"auto", "mp4", "mkv", "mp3"}
NoState == "None"
ConvStates == {"awaiting_url", "awaiting_caption", "awaiting_broadcast"}

(* The column defaults of CREATE TABLE users. *)
DefaultProfile ==
    [language |-> "ru", language_selected |-> 0, preferred_format |-> "auto"]

(* INSERT OR IGNORE INTO users (user_id) VALUES (?) *)
upsert_user(U, uid) ==
    IF uid \in DOMAIN U THEN U ELSE U @@ (uid :> DefaultProfile)

(* has_language reads and writes nothing: the table it leaves. *)
has_language_users(U, uid) == U

has_language(U, uid) ==
    uid \in DOMAIN U /\ U[uid].language_selected = 1

(* get_language upserts before it reads: the table it leaves. *)
get_language_users(U, uid) == upsert_user(U, uid)

get_language(U, uid) ==
    LET V == get_language_users(U, uid)
    IN  IF uid \in DOMAIN V /\ V[uid].language \in {"ru", "en"}
        THEN V[uid].language ELSE "ru"

set_language(U, uid, lang) ==
    [upsert_user(U, uid) EXCEPT ![uid].language = lang,
                                ![uid].language_selected = 1]

(* set_format without its UPDATE. *)
set_format_NoUpdate(U, uid, preferred_format) == upsert_user(U, uid)

set_format(U, uid, preferred_format) ==
    [upsert_user(U, uid) EXCEPT ![uid].preferred_format = preferred_format]

(* get_format without its upsert_user. *)
get_format_users_NoUpsert(U, uid) == U

(* get_format upserts before it reads: the table it leaves. *)
get_format_users(U, uid) == upsert_user(U, uid)

get_format(U, uid) ==
    LET V == get_format_users(U, uid)
    IN  IF uid \in DOMAIN V THEN V[uid].preferred_format ELSE "auto"

(* all_users: SELECT user_id FROM users, in the order of the integer
   primary key. *)
RECURSIVE SortedSeq(_)
SortedSeq(set) ==
    IF set = {} THEN <<>>
    ELSE LET m == CHOOSE x \in set : \A y \in set : x <= y
         IN  <<m>> \o SortedSeq(set \ {m})

all_users(U) == SortedSeq(DOMAIN U)

(* set_state that writes nothing. *)
set_state_NoWrite(S, uid, state) == S

(* INSERT ... ON CONFLICT(user_id) DO UPDATE SET state = excluded.state *)
set_state(S, uid, state) ==
    [i \in DOMAIN S \cup {uid} |-> IF i = uid THEN state ELSE S[i]]

(* get_state touches the user_states table only: the users table it
   leaves. *)
get_state_users(U, uid) == U

get_state(S, uid) == IF uid \in DOMAIN S THEN S[uid] ELSE NoState

(* clear_state that deletes nothing. *)
clear_state_NoDelete(S, uid) == S

(* DELETE FROM user_states WHERE user_id = ? *)
clear_state(S, uid) == [i \in DOMAIN S \ {uid} |-> S[i]]

get_media_caption(value) == value

set_media_caption(value) == value

(* The empty function: a table without rows. *)
EmptyTable == [i \in {} |-> 0]

----------------------------------------------------------------------------
(* The transport: what a handler sends is appended to out. *)

(* t(lang, key): TEXTS.get(lang, TEXTS["en"])[key], named by the catalogue
   it is taken from and its key. *)
t(lang, key) == [catalog |-> IF lang \in {"ru", "en"} THEN lang ELSE "en",
                 key |-> key]

NoMarkup == [kind |-> "none", lang |-> "", owner |-> FALSE]
ReplyKeyboardRemove == [kind |-> "remove", lang |-> "", owner |-> FALSE]

(* make_menu: the Russian rows for "ru", the English rows otherwise, and
   the owner's row when is_owner. *)
make_menu(lang, is_owner) ==
    [kind |-> "menu", lang |-> IF lang = "ru" THEN "ru" ELSE "en",
     owner |-> is_owner]

make_format_buttons == [kind |-> "format_buttons", lang |-> "", owner |-> FALSE]

make_language_buttons ==
    [kind |-> "language_buttons", lang |-> "", owner |-> FALSE]

(* One call of the transport: to is the chat it addresses, text the template
   (or "raw" with the characters in arg), ok whether it returned (FALSE: it
   raised). *)
Call(name, to, text, markup, arg, ok) ==
    [call |-> name, to |-> to, text |-> text, markup |-> markup,
     arg |-> arg, ok |-> ok]

Raw == [catalog |-> "", key |-> "raw"]

(* A chat: private chats have the user's id, the group chat one more than
   every user id. *)
ChatTypes == {"private", "group", "supergroup", "channel"}
GroupChatId == NumIds + 1
ChatId(uid, chat) == IF chat = "private" THEN uid ELSE GroupChatId

----------------------------------------------------------------------------
(* handle_download, the state of one call. *)

NoFile == [by |-> "none", exit |-> 0]

IdlePipe ==
    [pc |-> "idle", uid |-> 0, chat_id |-> 0, url |-> NoUrl, lang |-> "",
     origin |-> "", ws |-> "none", source |-> NoFile, fmt |-> "",
     result |-> NoFile, size |-> 0]

NewPipe(uid, chat_id, url, lang, origin) ==
    [IdlePipe EXCEPT !.pc = "gate", !.uid = uid, !.chat_id = chat_id,
                     !.url = url, !.lang = lang, !.origin = origin]

(* Updates are handled one at a time (Application.builder() keeps
   concurrent_updates off): the next one is taken when no handler runs. *)
Ready == pipe.pc \in {"idle", "done"}

(* A handler that ends within the step: what it leaves.  Its calls are the
   calls of the update, or follow those made so far when it runs while a
   download is suspended. *)
Finish(U, S, c, o) ==
    /\ users' = U
    /\ user_states' = S
    /\ caption' = c
    /\ IF Ready
       THEN out' = o /\ pipe' = IdlePipe
       ELSE out' = out \o o /\ pipe' = pipe

----------------------------------------------------------------------------
(* message_handler.  U is the users table after upsert_user and
   get_language, lang the language get_language returned. *)

CancelKeywords == {KW_CANCEL, KW_OTMENA}

(* if text.lower() in {"cancel", "отмена"} *)
OnCancel(U, uid, lang, is_owner) ==
    Finish(U, clear_state(user_states, uid), caption,
           <<Call("reply_text", uid, t(lang, "cancelled"),
                  make_menu(lang, is_owner), <<>>, TRUE)>>)

(* OnAwaitingUrl with the state cleared before the link is looked at. *)
OnAwaitingUrl_ClearsFirst(U, uid, lang, text) ==
    LET url == extract_url(text)
    IN  IF url = NoUrl
        THEN Finish(U, clear_state(user_states, uid), caption,
                    <<Call("reply_text", uid, t(lang, "bad_link"),
                           NoMarkup, <<>>, TRUE)>>)
        ELSE /\ users' = U
             /\ user_states' = clear_state(user_states, uid)
             /\ caption' = caption
             /\ out' = <<>>
             /\ pipe' = NewPipe(uid, uid, url, lang, "private")

(* OnAwaitingUrl without storage.clear_state(uid) before the download. *)
OnAwaitingUrl_KeepsState(U, uid, lang, text) ==
    LET url == extract_url(text)
    IN  IF url = NoUrl
        THEN Finish(U, user_states, caption,
                    <<Call("reply_text", uid, t(lang, "bad_link"),
                           NoMarkup, <<>>, TRUE)>>)
        ELSE /\ users' = U
             /\ user_states' = user_states
             /\ caption' = caption
             /\ out' = <<>>
             /\ pipe' = NewPipe(uid, uid, url, lang, "private")

(* if state == "awaiting_url" *)
OnAwaitingUrl(U, uid, lang, text) ==
    LET url == extract_url(text)
    IN  IF url = NoUrl
        THEN Finish(U, user_states, caption,
                    <<Call("reply_text", uid, t(lang, "bad_link"),
                           NoMarkup, <<>>, TRUE)>>)
        ELSE /\ users' = U
             /\ user_states' = clear_state(user_states, uid)
             /\ caption' = caption
             /\ out' = <<>>
             /\ pipe' = NewPipe(uid, uid, url, lang, "private")

(* OnAwaitingCaption without storage.set_media_caption(text). *)
OnAwaitingCaption_NoStore(U, uid, lang, text) ==
    Finish(U, clear_state(user_states, uid), caption,
           <<Call("reply_text", uid, t(lang, "caption_saved"),
                  make_menu(lang, TRUE), <<>>, TRUE)>>)

(* if state == "awaiting_caption" and is_owner *)
OnAwaitingCaption(U, uid, lang, text) ==
    Finish(U, clear_state(user_states, uid), set_media_caption(text),
           <<Call("reply_text", uid, t(lang, "caption_saved"),
                  make_menu(lang, TRUE), <<>>, TRUE)>>)

(* BroadcastLoop without the try around the send: the first send that
   raises ends the loop. *)
RECURSIVE BroadcastLoop_StopOnFailure(_, _, _, _)
BroadcastLoop_StopOnFailure(list, text, fails, acc) ==
    IF list = <<>> THEN acc
    ELSE LET user == Head(list)
             ok == user \notin fails
             next == [sent |-> IF ok THEN acc.sent + 1 ELSE acc.sent,
                      failed |-> IF ok THEN acc.failed ELSE acc.failed + 1,
                      calls |-> Append(acc.calls,
                          Call("send_message", user, Raw, NoMarkup, text, ok))]
         IN  IF ok
             THEN BroadcastLoop_StopOnFailure(Tail(list), text, fails, next)
             ELSE next

(* The broadcast loop: one send_message per user of the list, in order;
   fails are the users whose send raises.  acc is (sent, failed, calls). *)
RECURSIVE BroadcastLoop(_, _, _, _)
BroadcastLoop(list, text, fails, acc) ==
    IF list = <<>> THEN acc
    ELSE LET user == Head(list)
             ok == user \notin fails
         IN  BroadcastLoop(Tail(list), text, fails,
                 [sent |-> IF ok THEN acc.sent + 1 ELSE acc.sent,
                  failed |-> IF ok THEN acc.failed ELSE acc.failed + 1,
                  calls |-> Append(acc.calls,
                      Call("send_message", user, Raw, NoMarkup, text, ok))])

(* if state == "awaiting_broadcast" and is_owner *)
OnAwaitingBroadcast(U, uid, lang, text, fails) ==
    LET done == BroadcastLoop(all_users(U), text, fails,
                              [sent |-> 0, failed |-> 0, calls |-> <<>>])
    IN  Finish(U, clear_state(user_states, uid), caption,
               Append(done.calls,
                      Call("reply_text", uid, t(lang, "broadcast_done"),
                           make_menu(lang, TRUE),
                           <<done.sent, done.failed>>, TRUE)))

(* OnOwnerButton without the test of is_owner. *)
OnOwnerButton_NoCheck(U, uid, lang, is_owner, state, ask) ==
    Finish(U, set_state(user_states, uid, state), caption,
           <<Call("reply_text", uid, t(lang, ask),
                  ReplyKeyboardRemove, <<>>, TRUE)>>)

(* An owner-only button: the notice for anyone else, the awaiting state for
   the owner. *)
OnOwnerButton(U, uid, lang, is_owner, state, ask) ==
    IF ~is_owner
    THEN Finish(U, user_states, caption,
                <<Call("reply_text", uid, t(lang, "owner_only"),
                       make_menu(lang, is_owner), <<>>, TRUE)>>)
    ELSE Finish(U, set_state(user_states, uid, state), caption,
                <<Call("reply_text", uid, t(lang, ask),
                       ReplyKeyboardRemove, <<>>, TRUE)>>)

(* The menu buttons, and the menu again for any other text. *)
OnMenuText(U, uid, lang, is_owner, text) ==
    IF text \in {BTN_DOWNLOAD_RU, BTN_DOWNLOAD_EN}
    THEN Finish(U, set_state(user_states, uid, "awaiting_url"), caption,
                <<Call("reply_text", uid, t(lang, "send_link"),
                       ReplyKeyboardRemove, <<>>, TRUE)>>)
    ELSE IF text \in {BTN_FORMAT_RU, BTN_FORMAT_EN}
    THEN Finish(get_format_users(U, uid), user_states, caption,
                <<Call("reply_text", uid, t(lang, "format_now"),
                       make_format_buttons, <<get_format(U, uid)>>, TRUE)>>)
    ELSE IF text \in {BTN_LANGUAGE_RU, BTN_LANGUAGE_EN}
    THEN Finish(U, user_states, caption,
                <<Call("reply_text", uid, t(lang, "choose_lang"),
                       make_language_buttons, <<>>, TRUE)>>)
    ELSE IF text \in {BTN_HELP_RU, BTN_HELP_EN}
    THEN Finish(U, user_states, caption,
                <<Call("reply_text", uid, t(lang, "help"),
                       make_menu(lang, is_owner), <<>>, TRUE)>>)
    ELSE IF text \in {BTN_CAPTION_RU, BTN_CAPTION_EN}
    THEN OnOwnerButton(U, uid, lang, is_owner, "awaiting_caption",
                       "ask_caption")
    ELSE IF text \in {BTN_BROADCAST_RU, BTN_BROADCAST_EN}
    THEN OnOwnerButton(U, uid, lang, is_owner, "awaiting_broadcast",
                       "ask_broadcast")
    ELSE Finish(U, user_states, caption,
                <<Call("reply_text", uid, t(lang, "menu"),
                       make_menu(lang, is_owner), <<>>, TRUE)>>)

(* PrivateText with the cancel keywords looked for after the awaiting
   states. *)
PrivateText_CancelLast(U, uid, lang, is_owner, text, fails) ==
    LET state == get_state(user_states, uid)
    IN  IF text = CMD_START
        THEN Finish(U, user_states, caption, <<>>)
        ELSE IF state = "awaiting_url"
        THEN OnAwaitingUrl(U, uid, lang, text)
        ELSE IF state = "awaiting_caption" /\ is_owner
        THEN OnAwaitingCaption(U, uid, lang, text)
        ELSE IF state = "awaiting_broadcast" /\ is_owner
        THEN OnAwaitingBroadcast(U, uid, lang, text, fails)
        ELSE IF Lower(text) \in CancelKeywords
        THEN OnCancel(U, uid, lang, is_owner)
        ELSE OnMenuText(U, uid, lang, is_owner, text)

(* PrivateText with the menu buttons looked for before the awaiting
   states. *)
PrivateText_MenuFirst(U, uid, lang, is_owner, text, fails) ==
    LET state == get_state(user_states, uid)
    IN  IF text = CMD_START
        THEN Finish(U, user_states, caption, <<>>)
        ELSE IF Lower(text) \in CancelKeywords
        THEN OnCancel(U, uid, lang, is_owner)
        ELSE IF text \in {BTN_DOWNLOAD_RU, BTN_DOWNLOAD_EN,
                          BTN_CAPTION_RU, BTN_CAPTION_EN,
                          BTN_BROADCAST_RU, BTN_BROADCAST_EN}
        THEN OnMenuText(U, uid, lang, is_owner, text)
        ELSE IF state = "awaiting_url"
        THEN OnAwaitingUrl(U, uid, lang, text)
        ELSE IF state = "awaiting_caption" /\ is_owner
        THEN OnAwaitingCaption(U, uid, lang, text)
        ELSE IF state = "awaiting_broadcast" /\ is_owner
        THEN OnAwaitingBroadcast(U, uid, lang, text, fails)
        ELSE OnMenuText(U, uid, lang, is_owner, text)

(* if update.effective_chat.type == "private" *)
PrivateText(U, uid, lang, is_owner, text, fails) ==
    LET state == get_state(user_states, uid)
    IN  IF text = CMD_START
        THEN Finish(U, user_states, caption, <<>>)
        ELSE IF Lower(text) \in CancelKeywords
        THEN OnCancel(U, uid, lang, is_owner)
        ELSE IF state = "awaiting_url"
        THEN OnAwaitingUrl(U, uid, lang, text)
        ELSE IF state = "awaiting_caption" /\ is_owner
        THEN OnAwaitingCaption(U, uid, lang, text)
        ELSE IF state = "awaiting_broadcast" /\ is_owner
        THEN OnAwaitingBroadcast(U, uid, lang, text, fails)
        ELSE OnMenuText(U, uid, lang, is_owner, text)

(* GroupText with storage.clear_state(uid) before the download. *)
GroupText_ClearsState(U, uid, lang, text) ==
    LET mention == <<"@">> \o Lower(BotUsername)
        lower == Lower(text)
        url == extract_url(text)
    IN  IF mention = <<>> \/ ~Contains(lower, mention)
        THEN Finish(U, user_states, caption, <<>>)
        ELSE IF url = NoUrl
        THEN Finish(U, user_states, caption, <<>>)
        ELSE /\ users' = U
             /\ user_states' = clear_state(user_states, uid)
             /\ caption' = caption
             /\ out' = <<>>
             /\ pipe' = NewPipe(uid, GroupChatId, url, lang, "group")

(* if update.effective_chat.type in {"group", "supergroup"} *)
GroupText(U, uid, lang, text) ==
    LET mention == <<"@">> \o Lower(BotUsername)
        lower == Lower(text)
        url == extract_url(text)
    IN  IF mention = <<>> \/ ~Contains(lower, mention)
        THEN Finish(U, user_states, caption, <<>>)
        ELSE IF url = NoUrl
        THEN Finish(U, user_states, caption, <<>>)
        ELSE /\ users' = U
             /\ user_states' = user_states
             /\ caption' = caption
             /\ out' = <<>>
             /\ pipe' = NewPipe(uid, GroupChatId, url, lang, "group")

(* message_handler: raw is update.message.text; a channel post has no
   update.message and no effective_user. *)
message_handler(uid, chat, raw, fails) ==
    LET text == Strip(raw)
        U == get_language_users(upsert_user(users, uid), uid)
        lang == get_language(upsert_user(users, uid), uid)
        is_owner == uid = cfg.owner_id
    IN  IF chat = "channel" \/ text = <<>>
        THEN Finish(users, user_states, caption, <<>>)
        ELSE IF chat = "private"
        THEN PrivateText(U, uid, lang, is_owner, text, fails)
        ELSE IF chat \in {"group", "supergroup"}
        THEN GroupText(U, uid, lang, text)
        ELSE Finish(U, user_states, caption, <<>>)

(* filters.COMMAND: the message starts with a bot command. *)
IsCommand(raw) == raw /= <<>> /\ Head(raw) = "/"

----------------------------------------------------------------------------
(* start_handler *)

start_handler(uid, chat) ==
    IF chat = "channel"
    THEN Finish(users, user_states, caption, <<>>)
    ELSE IF chat /= "private"
    THEN Finish(users, user_states, caption,
                <<Call("reply_text", GroupChatId, t("ru", "group_hint"),
                       NoMarkup, <<BotUsername>>, TRUE)>>)
    ELSE LET U == upsert_user(users, uid)
             lang == get_language(U, uid)
         IN  IF ~has_language(U, uid)
             THEN Finish(U, user_states, caption,
                         <<Call("reply_text", uid, t("ru", "choose_lang"),
                                make_language_buttons, <<>>, TRUE)>>)
             ELSE Finish(get_language_users(U, uid), user_states, caption,
                         <<Call("reply_text", uid, t(lang, "welcome"),
                                make_menu(lang, uid = cfg.owner_id),
                                <<>>, TRUE)>>)

----------------------------------------------------------------------------
(* callback_handler.  A payload is the callback data in tokens:
   <<"lang", ":", "ru">> is "lang:ru". *)

StartsWith(payload, prefix) ==
    Len(payload) >= Len(prefix) /\ SubSeq(payload, 1, Len(prefix)) = prefix

(* payload.split(":", 1)[1]: what follows the first colon; a single token
   is the value it names, anything else names no value. *)
AfterColon(payload) ==
    IF Len(payload) = 3 THEN payload[3] ELSE "?"

(* OnLangPayload without the test of lang against {"ru", "en"}. *)
OnLangPayload_NoValidation(U, uid, payload, edit_ok) ==
    LET lang == AfterColon(payload)
        edit == Call("edit_message_text", uid, t(lang, "lang_saved"),
                     NoMarkup, <<>>, edit_ok)
    IN  Finish(set_language(U, uid, lang), user_states, caption,
               IF edit_ok
               THEN <<edit,
                      Call("send_message", uid, t(lang, "menu"),
                           make_menu(lang, uid = cfg.owner_id), <<>>, TRUE),
                      Call("answer", uid, [catalog |-> "", key |-> ""],
                           NoMarkup, <<>>, TRUE)>>
               ELSE <<edit>>)

(* if payload.startswith("lang:"); edit_ok is whether edit_message_text
   returns. *)
OnLangPayload(U, uid, payload, edit_ok) ==
    LET lang == AfterColon(payload)
        edit == Call("edit_message_text", uid, t(lang, "lang_saved"),
                     NoMarkup, <<>>, edit_ok)
    IN  IF lang \notin {"ru", "en"}
        THEN Finish(U, user_states, caption,
                    <<Call("answer", uid, [catalog |-> "", key |-> "Invalid language"],
                           NoMarkup, <<>>, TRUE)>>)
        ELSE Finish(set_language(U, uid, lang), user_states, caption,
                    IF edit_ok
                    THEN <<edit,
                           Call("send_message", uid, t(lang, "menu"),
                                make_menu(lang, uid = cfg.owner_id), <<>>, TRUE),
                           Call("answer", uid, [catalog |-> "", key |-> ""],
                                NoMarkup, <<>>, TRUE)>>
                    ELSE <<edit>>)

(* OnFmtPayload with storage.clear_state(uid) after the format is set. *)
OnFmtPayload_ClearsState(U, uid, payload) ==
    LET fmt == AfterColon(payload)
        V == set_format(U, uid, fmt)
    IN  IF fmt \notin {"auto", "mp4", "mkv", "mp3"}
        THEN Finish(U, user_states, caption,
                    <<Call("answer", uid, [catalog |-> "", key |-> "Invalid format"],
                           NoMarkup, <<>>, TRUE)>>)
        ELSE Finish(get_language_users(V, uid), clear_state(user_states, uid),
                    caption,
                    <<Call("answer", uid, t(get_language(V, uid), "format_saved"),
                           NoMarkup, <<fmt>>, TRUE)>>)

(* if payload.startswith("fmt:") *)
OnFmtPayload(U, uid, payload) ==
    LET fmt == AfterColon(payload)
        V == set_format(U, uid, fmt)
    IN  IF fmt \notin {"auto", "mp4", "mkv", "mp3"}
        THEN Finish(U, user_states, caption,
                    <<Call("answer", uid, [catalog |-> "", key |-> "Invalid format"],
                           NoMarkup, <<>>, TRUE)>>)
        ELSE Finish(get_language_users(V, uid), user_states, caption,
                    <<Call("answer", uid, t(get_language(V, uid), "format_saved"),
                           NoMarkup, <<fmt>>, TRUE)>>)

callback_handler(uid, payload, edit_ok) ==
    LET U == upsert_user(users, uid)
    IN  IF StartsWith(payload, <<"lang", ":">>)
        THEN OnLangPayload(U, uid, payload, edit_ok)
        ELSE IF StartsWith(payload, <<"fmt", ":">>)
        THEN OnFmtPayload(U, uid, payload)
        ELSE Finish(U, user_states, caption, <<>>)

----------------------------------------------------------------------------
(* check_subscription.  lookup is what get_chat_member does: the member's
   status, or "raise". *)

MemberStatuses ==
    {"member", "administrator", "creator", "restricted", "left", "kicked"}

(* check_subscription that takes a failed lookup for a subscription. *)
check_subscription_FailOpen(lookup) ==
    IF lookup = "raise" THEN TRUE
    ELSE lookup \in {"member", "administrator", "creator", "restricted"}

check_subscription(lookup) ==
    IF lookup = "raise" THEN FALSE
    ELSE lookup \in {"member", "administrator", "creator", "restricted"}

----------------------------------------------------------------------------
(* download_media.  A run of a tool is its exit code and the files it
   leaves in the directory; a file is the tool that wrote it, that tool's
   exit code and the file's modification time. *)

Tools == {"yt-dlp", "gallery-dl"}

File(by, exit, mtime) == [by |-> by, exit |-> exit, mtime |-> mtime]

(* What a run of tool `by` may do: exit 0 or 1, leaving no file or one. *)
ToolRuns(by) == [code : {0, 1}, mtime : 0..MaxMtime]

FilesOf(by, run) ==
    IF run.mtime = 0 THEN {} ELSE {File(by, run.code, run.mtime)}

(* find_latest_file: the files of the greatest modification time (one of
   them is files[0] after the sort), none for an empty folder. *)
find_latest_file(folder) ==
    {f \in folder : \A g \in folder : g.mtime <= f.mtime}

(* download_media: the files it may return; none means it raises. *)
download_media(yt, gd) ==
    LET after_yt == FilesOf("yt-dlp", yt)
        after_gd == after_yt \cup FilesOf("gallery-dl", gd)
    IN  IF yt.code = 0 /\ find_latest_file(after_yt) /= {}
        THEN find_latest_file(after_yt)
        ELSE IF gd.code = 0 /\ find_latest_file(after_gd) /= {}
        THEN find_latest_file(after_gd)
        ELSE {}

----------------------------------------------------------------------------
(* ffmpeg_convert: the file it returns, NoFile when it raises.  code is the
   exit code ffmpeg would end with. *)

Transcoded == [by |-> "ffmpeg", exit |-> 0]

(* ffmpeg_convert that runs ffmpeg for the preset auto too. *)
ffmpeg_convert_AlwaysRuns(source, preset, code) ==
    IF preset \in {"auto", "mp4", "mkv", "mp3"}
    THEN IF code /= 0 THEN NoFile ELSE Transcoded
    ELSE NoFile

ffmpeg_convert(source, preset, code) ==
    IF preset = "auto" THEN source
    ELSE IF preset \in {"mp4", "mkv", "mp3"}
    THEN IF code /= 0 THEN NoFile ELSE Transcoded
    ELSE NoFile

----------------------------------------------------------------------------
(* handle_download, one step per await. *)

BytesPerMB == 1024 * 1024

(* The sizes in bytes a file is found to have: around the ceiling. *)
FileSizes ==
    {MaxFileSizeMb * BytesPerMB - 1,
     MaxFileSizeMb * BytesPerMB,
     MaxFileSizeMb * BytesPerMB + 1}

(* The size test with >= for >. *)
TooBig_AtCeiling(size, max_file_size_mb) == size >= max_file_size_mb * BytesPerMB

(* size_mb > cfg.max_file_size_mb, with size_mb = size / (1024 * 1024) *)
TooBig(size, max_file_size_mb) == size > max_file_size_mb * BytesPerMB

(* A scratch directory that is not removed when the block is left. *)
TemporaryDirectoryExit_Leak(ws) == ws

(* Leaving the `with tempfile.TemporaryDirectory(...)` block, by its end,
   a return or an exception: the directory is removed. *)
TemporaryDirectoryExit(ws) == "deleted"

Say(call) == out' = Append(out, call)

(* The gate, then the need_sub notice or the "downloading" status and the
   scratch directory. *)
PipeGate(lookup, ok) ==
    /\ pipe.pc = "gate"
    /\ IF ~check_subscription(lookup)
       THEN /\ Say(Call("send_message", pipe.chat_id, t(pipe.lang, "need_sub"),
                        NoMarkup, <<>>, ok))
            /\ pipe' = [pipe EXCEPT !.pc = IF ok THEN "return" ELSE "raised"]
       ELSE /\ Say(Call("send_message", pipe.chat_id, t(pipe.lang, "downloading"),
                        NoMarkup, <<>>, ok))
            /\ pipe' = IF ok THEN [pipe EXCEPT !.pc = "download", !.ws = "live"]
                       ELSE [pipe EXCEPT !.pc = "raised"]
    /\ UNCHANGED <<cfg, users, user_states, caption, ret>>

(* download_media in the scratch directory, then storage.get_format. *)
PipeDownload(yt, gd) ==
    /\ pipe.pc = "download"
    /\ IF download_media(yt, gd) = {}
       THEN /\ pipe' = [pipe EXCEPT !.pc = "except",
                                    !.ws = TemporaryDirectoryExit(pipe.ws)]
            /\ users' = users
       ELSE \E f \in download_media(yt, gd) :
            /\ pipe' = [pipe EXCEPT !.pc = "convert",
                                    !.source = [by |-> f.by, exit |-> f.exit],
                                    !.fmt = get_format(users, pipe.uid)]
            /\ users' = get_format_users(users, pipe.uid)
    /\ UNCHANGED <<cfg, user_states, caption, out, ret>>

(* ffmpeg_convert, the size of the result, and the "too big" or the
   "sending" edit of the status message. *)
PipeConvert(code, size, ok) ==
    /\ pipe.pc = "convert"
    /\ LET result == ffmpeg_convert(pipe.source, pipe.fmt, code)
       IN  IF result = NoFile
           THEN /\ pipe' = [pipe EXCEPT !.pc = "except",
                                        !.ws = TemporaryDirectoryExit(pipe.ws)]
                /\ out' = out
           ELSE IF TooBig(size, cfg.max_file_size_mb)
           THEN /\ Say(Call("edit_text", pipe.chat_id, t(pipe.lang, "too_big"),
                            NoMarkup, <<size, cfg.max_file_size_mb>>, ok))
                /\ pipe' = [pipe EXCEPT !.pc = IF ok THEN "return" ELSE "except",
                                        !.result = result, !.size = size,
                                        !.ws = TemporaryDirectoryExit(pipe.ws)]
           ELSE /\ Say(Call("edit_text", pipe.chat_id, t(pipe.lang, "sending"),
                            NoMarkup, <<size>>, ok))
                /\ pipe' = IF ok
                           THEN [pipe EXCEPT !.pc = "send", !.result = result,
                                             !.size = size]
                           ELSE [pipe EXCEPT !.pc = "except", !.result = result,
                                             !.size = size,
                                             !.ws = TemporaryDirectoryExit(pipe.ws)]
    /\ UNCHANGED <<cfg, users, user_states, caption, ret>>

(* storage.get_media_caption().strip() or t(lang, "done") *)
ExtraCaption(lang) ==
    IF Strip(get_media_caption(caption)) /= <<>>
    THEN [text |-> Raw, chars |-> Strip(get_media_caption(caption))]
    ELSE [text |-> t(lang, "done"), chars |-> <<>>]

(* send_document with the caption; the scratch directory ends here. *)
PipeSend(ok) ==
    /\ pipe.pc = "send"
    /\ Say(Call("send_document", pipe.chat_id, ExtraCaption(pipe.lang).text,
                NoMarkup,
                <<pipe.result, pipe.size, ExtraCaption(pipe.lang).chars>>, ok))
    /\ pipe' = [pipe EXCEPT !.pc = IF ok THEN "delete" ELSE "except",
                            !.ws = TemporaryDirectoryExit(pipe.ws)]
    /\ UNCHANGED <<cfg, users, user_states, caption, ret>>

(* status.delete() *)
PipeDelete(ok) ==
    /\ pipe.pc = "delete"
    /\ Say(Call("delete", pipe.chat_id, [catalog |-> "", key |-> ""],
                NoMarkup, <<>>, ok))
    /\ pipe' = [pipe EXCEPT !.pc = IF ok THEN "return" ELSE "except"]
    /\ UNCHANGED <<cfg, users, user_states, caption, ret>>

(* except Exception: status.edit_text(t(lang, "error", ...)) *)
PipeExcept(ok) ==
    /\ pipe.pc = "except"
    /\ Say(Call("edit_text", pipe.chat_id, t(pipe.lang, "error"),
                NoMarkup, <<>>, ok))
    /\ pipe' = [pipe EXCEPT !.pc = IF ok THEN "return" ELSE "raised"]
    /\ UNCHANGED <<cfg, users, user_states, caption, ret>>

(* PipeReturn with storage.clear_state for the requester at the end. *)
PipeReturn_ClearsState ==
    /\ pipe.pc \in {"return", "raised"}
    /\ out' = IF pipe.pc = "return" /\ pipe.origin = "private"
              THEN Append(out, Call("reply_text", pipe.chat_id,
                                    t(pipe.lang, "menu"),
                                    make_menu(pipe.lang, pipe.uid = cfg.owner_id),
                                    <<>>, TRUE))
              ELSE out
    /\ pipe' = [pipe EXCEPT !.pc = "done"]
    /\ user_states' = clear_state(user_states, pipe.uid)
    /\ UNCHANGED <<cfg, users, caption, ret>>

(* Back in message_handler: the menu again in a private chat, nothing more
   in a group, and nothing at all when handle_download raised. *)
PipeReturn ==
    /\ pipe.pc \in {"return", "raised"}
    /\ out' = IF pipe.pc = "return" /\ pipe.origin = "private"
              THEN Append(out, Call("reply_text", pipe.chat_id,
                                    t(pipe.lang, "menu"),
                                    make_menu(pipe.lang, pipe.uid = cfg.owner_id),
                                    <<>>, TRUE))
              ELSE out
    /\ pipe' = [pipe EXCEPT !.pc = "done"]
    /\ UNCHANGED <<cfg, users, user_states, caption, ret>>

----------------------------------------------------------------------------------------------------------------------------------------
(* The updates the Application dispatches (main). *)

(* MessageHandler(filters.TEXT & ~filters.COMMAND, message_handler) *)
MessageUpdate(uid, chat, raw, fails) ==
    /\ Ready
    /\ raw /= <<>> /\ ~IsCommand(raw)
    /\ message_handler(uid, chat, raw, fails)
    /\ UNCHANGED <<cfg, ret>>

(* CommandHandler("start", start_handler) *)
StartUpdate(uid, chat) ==
    /\ Ready
    /\ start_handler(uid, chat)
    /\ UNCHANGED <<cfg, ret>>

(* CallbackQueryHandler(callback_handler) *)
CallbackUpdate(uid, payload, edit_ok) ==
    /\ Ready
    /\ callback_handler(uid, payload, edit_ok)
    /\ UNCHANGED <<cfg, ret>>

NoCall == [op |-> "none", uid |-> 0, known |-> FALSE, val |-> <<>>]

Init ==
    /\ cfg = [owner_id |-> OwnerId, max_file_size_mb |-> MaxFileSizeMb]
    /\ users = EmptyTable
    /\ user_states = EmptyTable
    /\ caption = <<>>
    /\ pipe = IdlePipe
    /\ out = <<>>
    /\ ret = NoCall

(* The updates of users who send the messages `sent` (each a kind of chat
   and a text), start the bot in chats of the kinds `chats` and press
   buttons with the callback data `payloads`. *)
Updates(sent, chats, payloads) ==
    \/ \E uid \in Ids, m \in sent :
         \E fails \in IF get_state(user_states, uid) = "awaiting_broadcast"
                      THEN SUBSET Ids ELSE {{}} :
            MessageUpdate(uid, m[1], m[2], fails)
    \/ \E uid \in Ids, chat \in chats : StartUpdate(uid, chat)
    \/ \E uid \in Ids, payload \in payloads, edit_ok \in BOOLEAN :
         CallbackUpdate(uid, payload, edit_ok)

(* The steps of handle_download in an environment env: the membership
   lookups, the runs of the two download tools, ffmpeg's exit codes, the
   file sizes and whether a transport call returns. *)
Pipeline(env) ==
    \/ \E lookup \in env.lookups, ok \in env.oks : PipeGate(lookup, ok)
    \/ \E yt \in env.yt, gd \in env.gd : PipeDownload(yt, gd)
    \/ \E code \in env.codes, size \in env.sizes, ok \in env.oks :
         PipeConvert(code, size, ok)
    \/ \E ok \in env.oks : PipeSend(ok)
    \/ \E ok \in env.oks : PipeDelete(ok)
    \/ \E ok \in env.oks : PipeExcept(ok)
    \/ PipeReturn

(* The conversation engine: every kind of text, chat and language button,
   in an environment where the transport answers, a member is subscribed or
   has left, and a download either gives yt-dlp's file or fails.  (Telegram
   delivers no text that is empty or blank, and CMD_START is kept from
   message_handler by its filter.) *)
SentTexts ==
    {TXT_HELLO, TXT_PADDED, TXT_URL, TXT_SCHEME_ONLY,
     TXT_CANCEL_MIXED, TXT_OTMENA_UPPER,
     BTN_DOWNLOAD_EN, BTN_FORMAT_EN, BTN_CAPTION_RU, BTN_BROADCAST_EN,
     CMD_START}

GroupTexts == {TXT_MENTION_URL, TXT_MENTION_ONLY, TXT_URL}

SentChats == {"private", "group", "channel"}

Sent ==
    ({"private"} \X SentTexts) \cup ({"group"} \X GroupTexts)
        \cup {<<"channel", TXT_HELLO>>}

Payloads ==
    {<<"lang", ":", "ru">>, <<"lang", ":", "en">>, <<"lang", ":", "de">>,
     <<"noop">>, <<>>}

CalmEnv ==
    [lookups |-> {"member", "left"},
     yt |-> {[code |-> 0, mtime |-> 1], [code |-> 1, mtime |-> 0]},
     gd |-> {[code |-> 1, mtime |-> 0]},
     codes |-> {0},
     sizes |-> {MaxFileSizeMb * BytesPerMB},
     oks |-> {TRUE}]

Next == Updates(Sent, SentChats, Payloads) \/ Pipeline(CalmEnv)

Spec == Init /\ [][Next]_vars

(* The download pipeline: the texts and buttons that lead to it, in every
   environment. *)
PipeSent ==
    ({"private"} \X {BTN_DOWNLOAD_EN, TXT_URL})
        \cup {<<"supergroup", TXT_MENTION_URL>>}

PipeChats == {"private", "supergroup"}

PipePayloads == {<<"fmt", ":", "mp3">>, <<"fmt", ":", "avi">>}

FullEnv ==
    [lookups |-> MemberStatuses \cup {"raise"},
     yt |-> ToolRuns("yt-dlp"),
     gd |-> ToolRuns("gallery-dl"),
     codes |-> {0, 1},
     sizes |-> FileSizes,
     oks |-> BOOLEAN]

PipeNext == Updates(PipeSent, PipeChats, PipePayloads) \/ Pipeline(FullEnv)

PipeSpec == Init /\ [][PipeNext]_vars

(* handle_download is a coroutine the event loop runs to its end: a step
   of it that can be taken is taken. *)
PipeFairSpec == Init /\ [][PipeNext]_vars /\ WF_vars(Pipeline(FullEnv))

----------------------------------------------------------------------------
(* Handlers that run while a download is suspended.  The Application main
   builds handles one update at a time, and the specifications above are
   what it does; with concurrent updates a handler runs while
   handle_download waits at one of its awaits (the membership lookup, the
   download, the transcoding, the transport calls).  This specification
   adds those steps to the ones above, for one download in flight. *)

MaxCalls == 2

Suspended == pipe.pc \in {"gate", "download", "convert", "send"}

MessageInFlight(uid, raw) ==
    /\ Suspended /\ Len(out) < MaxCalls
    /\ raw /= <<>> /\ ~IsCommand(raw)
    /\ message_handler(uid, "private", raw, {})
    /\ pipe' = pipe
    /\ UNCHANGED <<cfg, ret>>

StartInFlight(uid) ==
    /\ Suspended /\ Len(out) < MaxCalls
    /\ start_handler(uid, "private")
    /\ UNCHANGED <<cfg, ret>>

CallbackInFlight(uid, payload) ==
    /\ Suspended /\ Len(out) < MaxCalls
    /\ callback_handler(uid, payload, TRUE)
    /\ UNCHANGED <<cfg, ret>>

InFlightTexts == {BTN_DOWNLOAD_EN, TXT_CANCEL_MIXED}

InterleavedSent == {"private"} \X {BTN_DOWNLOAD_EN, TXT_URL}

InterleavedChats == {"private"}

InterleavedPayloads == {<<"fmt", ":", "mp3">>}

InterleavedNext ==
    \/ Updates(InterleavedSent, InterleavedChats, InterleavedPayloads)
    \/ Pipeline(CalmEnv)
    \/ \E uid \in Ids, raw \in InFlightTexts : MessageInFlight(uid, raw)
    \/ \E uid \in Ids : StartInFlight(uid)
    \/ \E uid \in Ids, payload \in InterleavedPayloads :
         CallbackInFlight(uid, payload)

InterleavedSpec == Init /\ [][InterleavedNext]_vars

----------------------------------------------------------------------------
(* The inline buttons: the language and format buttons, with the callback
   data the keyboards carry and data they do not, pressed in every
   conversation state the menu leads to. *)

ButtonSent ==
    {"private"} \X {TXT_HELLO, BTN_DOWNLOAD_EN, BTN_CAPTION_EN, BTN_BROADCAST_EN}

ButtonChats == {"private"}

ButtonPayloads ==
    {<<"lang", ":", "ru">>, <<"lang", ":", "en">>, <<"lang", ":", "de">>,
     <<"lang", ":">>,
     <<"fmt", ":", "auto">>, <<"fmt", ":", "mp3">>, <<"fmt", ":", "avi">>,
     <<"noop">>, <<>>}

ButtonNext == Updates(ButtonSent, ButtonChats, ButtonPayloads)

ButtonSpec == Init /\ [][ButtonNext]_vars

----------------
(* The Storage methods called one by one, on any identity: ret is the call
   and what it returned, known whether the identity had a profile row. *)

Returned(op, uid, val) ==
    ret' = [op |-> op, uid |-> uid, known |-> uid \in DOMAIN users, val |-> val]

StoreLanguages == {"ru", "en", "de"}
StoreStates == {"awaiting_url", "awaiting_caption"}
StoreCaptions == {<<>>, TXT_HELLO}

StoreUpsertUser(uid) ==
    /\ users' = upsert_user(users, uid)
    /\ Returned("upsert_user", uid, <<>>)
    /\ UNCHANGED <<cfg, user_states, caption, pipe, out>>

StoreHasLanguage(uid) ==
    /\ users' = has_language_users(users, uid)
    /\ Returned("has_language", uid, has_language(users, uid))
    /\ UNCHANGED <<cfg, user_states, caption, pipe, out>>

StoreGetLanguage(uid) ==
    /\ users' = get_language_users(users, uid)
    /\ Returned("get_language", uid, get_language(users, uid))
    /\ UNCHANGED <<cfg, user_states, caption, pipe, out>>

StoreSetLanguage(uid, lang) ==
    /\ users' = set_language(users, uid, lang)
    /\ Returned("set_language", uid, lang)
    /\ UNCHANGED <<cfg, user_states, caption, pipe, out>>

StoreSetFormat(uid, fmt) ==
    /\ users' = set_format(users, uid, fmt)
    /\ Returned("set_format", uid, fmt)
    /\ UNCHANGED <<cfg, user_states, caption, pipe, out>>

StoreGetFormat(uid) ==
    /\ users' = get_format_users(users, uid)
    /\ Returned("get_format", uid, get_format(users, uid))
    /\ UNCHANGED <<cfg, user_states, caption, pipe, out>>

StoreAllUsers ==
    /\ Returned("all_users", 0, all_users(users))
    /\ UNCHANGED <<cfg, users, user_states, caption, pipe, out>>

StoreSetState(uid, state) ==
    /\ user_states' = set_state(user_states, uid, state)
    /\ Returned("set_state", uid, state)
    /\ UNCHANGED <<cfg, users, caption, pipe, out>>

StoreGetState(uid) ==
    /\ users' = get_state_users(users, uid)
    /\ Returned("get_state", uid, get_state(user_states, uid))
    /\ UNCHANGED <<cfg, user_states, caption, pipe, out>>

StoreClearState(uid) ==
    /\ user_states' = clear_state(user_states, uid)
    /\ Returned("clear_state", uid, <<>>)
    /\ UNCHANGED <<cfg, users, caption, pipe, out>>

StoreGetMediaCaption ==
    /\ Returned("get_media_caption", 0, get_media_caption(caption))
    /\ UNCHANGED <<cfg, users, user_states, caption, pipe, out>>

StoreSetMediaCaption(value) ==
    /\ caption' = set_media_caption(value)
    /\ Returned("set_media_caption", 0, value)
    /\ UNCHANGED <<cfg, users, user_states, pipe, out>>

StoreNext ==
    \/ \E uid \in Ids : StoreUpsertUser(uid)
    \/ \E uid \in Ids : StoreHasLanguage(uid)
    \/ \E uid \in Ids : StoreGetLanguage(uid)
    \/ \E uid \in Ids, lang \in StoreLanguages : StoreSetLanguage(uid, lang)
    \/ \E uid \in Ids, fmt \in Formats : StoreSetFormat(uid, fmt)
    \/ \E uid \in Ids : StoreGetFormat(uid)
    \/ StoreAllUsers
    \/ \E uid \in Ids, state \in StoreStates : StoreSetState(uid, state)
    \/ \E uid \in Ids : StoreGetState(uid)
    \/ \E uid \in Ids : StoreClearState(uid)
    \/ StoreGetMediaCaption
    \/ \E value \in StoreCaptions : StoreSetMediaCaption(value)

StoreSpec == Init /\ [][StoreNext]_vars

----------------------------------------------------------------------------
(* The claims. *)

(* A text holds a URL: "http://" or "https://", in any letter case, with a
   character that is no whitespace after it. *)
HasUrl(s) ==
    \E i \in 1..Len(s) :
        \/ /\ LitAt(LowerChars(s), i, HTTP)
           /\ i + 7 <= Len(s) /\ s[i + 7] \notin Whitespace
        \/ /\ LitAt(LowerChars(s), i, HTTPS)
           /\ i + 8 <= Len(s) /\ s[i + 8] \notin Whitespace

(* The cancel keywords in the letter cases the users send them in. *)
CancelTexts == {KW_CANCEL, TXT_CANCEL_MIXED, KW_OTMENA, TXT_OTMENA_UPPER}

(* The reply of a handler that made one transport call. *)
Replied(o, uid, key) ==
    /\ Len(o) = 1
    /\ o[1].call = "reply_text" /\ o[1].to = uid /\ o[1].text.key = key

(* The texts sent that hold no URL and are no cancel keyword. *)
NoUrlTexts == {raw \in SentTexts : ~HasUrl(raw) /\ raw \notin CancelTexts}

(* C1: in a private chat, a text without a URL that is no cancel keyword,
   sent by a user in awaiting_url, leaves that user in awaiting_url, is
   answered by the bad-link message and starts no download pipeline. *)
C1_BadLinkKeepsState ==
    [][\A uid \in Ids :
         (Ready /\ get_state(user_states, uid) = "awaiting_url") =>
            \A raw \in NoUrlTexts :
                MessageUpdate(uid, "private", raw, {})
                => ( /\ get_state(user_states', uid) = "awaiting_url"
                     /\ Replied(out', uid, "bad_link")
                     /\ pipe'.pc = "idle" )]_vars

C1_Witness ==
    \E uid \in Ids :
        /\ get_state(user_states, uid) = "awaiting_url"
        /\ Replied(out, uid, "bad_link")
        /\ pipe.pc = "idle"

(* No call of out is a send of the broadcast loop. *)
NoBroadcast(o) == \A i \in DOMAIN o : o[i].text.key /= "raw"

(* C2, as claimed: in a private chat a cancel keyword, in any letter case
   and in any conversation state, leaves the sender idle, and the caption
   and all profiles as they were, sends no broadcast message and starts no
   download pipeline. *)
C2_CancelNoSideEffect ==
    [][\A uid \in Ids :
         Ready =>
            \A raw \in SentTexts \cap CancelTexts :
                MessageUpdate(uid, "private", raw, {})
                => ( /\ get_state(user_states', uid) = NoState
                     /\ caption' = caption
                     /\ users' = users
                     /\ NoBroadcast(out')
                     /\ pipe'.pc = "idle" )]_vars

(* C2, amended: a cancel keyword leaves the sender idle and every other
   user's state, the caption and every profile there is as they were; a
   sender without a profile row gets the default one; the only call is the
   "cancelled" reply, and no download pipeline starts. *)
C2_CancelClearsOnlyState ==
    [][\A uid \in Ids :
         Ready =>
            \A raw \in SentTexts \cap CancelTexts :
                MessageUpdate(uid, "private", raw, {})
                => ( /\ get_state(user_states', uid) = NoState
                     /\ \A v \in Ids \ {uid} :
                          get_state(user_states', v) = get_state(user_states, v)
                     /\ caption' = caption
                     /\ DOMAIN users' = DOMAIN users \cup {uid}
                     /\ \A v \in DOMAIN users : users'[v] = users[v]
                     /\ uid \notin DOMAIN users => users'[uid] = DefaultProfile
                     /\ Replied(out', uid, "cancelled")
                     /\ pipe'.pc = "idle" )]_vars

C2_Witness ==
    \E uid \in Ids :
        /\ Replied(out, uid, "cancelled")
        /\ get_state(user_states, uid) = NoState
        /\ caption /= <<>>
        /\ users[uid] /= DefaultProfile

(* The owner-only buttons among the texts sent. *)
OwnerButtons ==
    SentTexts \cap {BTN_CAPTION_RU, BTN_CAPTION_EN,
                    BTN_BROADCAST_RU, BTN_BROADCAST_EN}

(* C3, as claimed: the "edit caption" or "broadcast" button sent in a
   private chat by anyone but the owner, in any conversation state, leaves
   the conversation states as they were and is answered by the owner-only
   message. *)
C3_OwnerOnlyAlways ==
    [][\A uid \in Ids \ {cfg.owner_id} :
         Ready =>
            \A raw \in OwnerButtons :
                MessageUpdate(uid, "private", raw, {})
                => ( /\ user_states' = user_states
                     /\ Replied(out', uid, "owner_only") )]_vars

(* C3, amended: the button leaves the conversation states as they were; it
   is answered by the owner-only message when the sender is idle and by the
   bad-link message when the sender is in awaiting_url, the one awaiting
   state anyone but the owner is ever in. *)
C3_OwnerOnlyWhenIdle ==
    [][\A uid \in Ids \ {cfg.owner_id} :
         Ready =>
            \A raw \in OwnerButtons :
                MessageUpdate(uid, "private", raw, {})
                => ( /\ user_states' = user_states
                     /\ get_state(user_states, uid) \in {NoState, "awaiting_url"}
                     /\ get_state(user_states, uid) = NoState
                          => Replied(out', uid, "owner_only")
                     /\ get_state(user_states, uid) = "awaiting_url"
                          => Replied(out', uid, "bad_link") )]_vars

C3_Witness ==
    \E uid \in Ids \ {cfg.owner_id} :
        /\ Replied(out, uid, "owner_only")
        /\ get_state(user_states, uid) = NoState
        /\ get_state(user_states, cfg.owner_id) = "awaiting_caption"

(* C4: no identity whose locale-confirmed flag is false is shown the main
   menu. *)
C4_NoMenuBeforeLocale ==
    \A i \in DOMAIN out :
        (out[i].markup.kind = "menu" /\ out[i].to \in Ids)
            => has_language(users, out[i].to)

(* The statuses check_subscription takes for a subscription. *)
SubscribedStatuses == {"member", "administrator", "creator", "restricted"}

(* The pipeline is in the scratch directory. *)
InWorkspace == pipe.pc \in {"download", "convert", "send"}

(* C5: a scratch directory is there only while the pipeline is inside the
   block that made it: after a sent file, a file over the limit, a failed
   download, a failed transcoding, and a status edit or a send that raised,
   the directory of the run is deleted. *)
C5_WorkspaceDeleted == ~InWorkspace => pipe.ws /= "live"

C5_Witness ==
    /\ pipe.pc = "done"
    /\ pipe.ws = "deleted"
    /\ \E i \in DOMAIN out : out[i].call = "send_document" /\ ~out[i].ok

(* The need_sub notice is among the calls. *)
NeedSubSent(o) == \E i \in DOMAIN o : o[i].text.key = "need_sub"

(* C6: when the membership lookup raises or gives a status that is no
   subscription, the pipeline sends the need_sub notice and ends, and a run
   that sent the notice has no scratch directory, no downloaded and no
   transcoded file, and has sent no file. *)
C6_GateFailsClosed ==
    [][/\ pipe.pc = "gate" =>
            \A lookup \in FullEnv.lookups \ SubscribedStatuses, ok \in BOOLEAN :
                PipeGate(lookup, ok)
                => ( /\ out' = Append(out, Call("send_message", pipe.chat_id,
                                  t(pipe.lang, "need_sub"), NoMarkup, <<>>, ok))
                     /\ pipe'.pc \in {"return", "raised"}
                     /\ pipe'.ws = "none" )
       /\ NeedSubSent(out') =>
            ( /\ pipe'.pc \in {"return", "raised", "done"}
              /\ pipe'.ws = "none"
              /\ pipe'.source = NoFile /\ pipe'.result = NoFile
              /\ \A i \in DOMAIN out' :
                   out'[i].call \notin {"send_document", "edit_text"} )]_vars

C6_Witness ==
    /\ pipe.pc = "done"
    /\ NeedSubSent(out)
    /\ pipe.ws = "none"

(* The ceiling in bytes. *)
Ceiling == cfg.max_file_size_mb * BytesPerMB

(* C7: every file sent is no larger than the ceiling; a file larger than
   the ceiling is answered by the "too big" edit with its size and the
   limit, and the run goes on to no send; a file of exactly the ceiling
   goes on to send_document. *)
C7_SizeCeiling ==
    [][/\ \A i \in DOMAIN out' :
            out'[i].call = "send_document" => out'[i].arg[2] <= Ceiling
       /\ pipe.pc = "convert" =>
            \A code \in FullEnv.codes, size \in FullEnv.sizes, ok \in BOOLEAN :
                ( /\ PipeConvert(code, size, ok)
                  /\ ffmpeg_convert(pipe.source, pipe.fmt, code) /= NoFile )
                => IF size > Ceiling
                   THEN /\ out' = Append(out, Call("edit_text", pipe.chat_id,
                                     t(pipe.lang, "too_big"), NoMarkup,
                                     <<size, cfg.max_file_size_mb>>, ok))
                        /\ pipe'.pc \in {"return", "except"}
                   ELSE pipe'.pc = IF ok THEN "send" ELSE "except"
       /\ pipe.pc = "send" =>
            ( /\ pipe.size <= Ceiling
              /\ out' /= out =>
                   ( /\ out'[Len(out')].call = "send_document"
                     /\ out'[Len(out')].arg[2] = pipe.size ) )
       /\ (\E i \in DOMAIN out' : out'[i].text.key = "too_big") =>
            \A i \in DOMAIN out' : out'[i].call /= "send_document"]_vars

C7_Witness ==
    \E i \in DOMAIN out :
        /\ out[i].call = "send_document" /\ out[i].ok
        /\ out[i].arg[2] = Ceiling

(* What a broadcast of text to the users U leaves in the calls, when the
   sends to the users in fails raise: one send per user, in the order of
   all_users, then the report of the two tallies. *)
BroadcastResult(o, U, fails) ==
    LET n == Cardinality(DOMAIN U)
        failed == Cardinality(fails \cap DOMAIN U)
    IN  /\ Len(o) = n + 1
        /\ \A i \in 1..n :
             /\ o[i].call = "send_message" /\ o[i].text.key = "raw"
             /\ o[i].to \in DOMAIN U
             /\ o[i].ok = (o[i].to \notin fails)
        /\ \A i, j \in 1..n : i < j => o[i].to < o[j].to
        /\ o[n + 1].text.key = "broadcast_done"
        /\ o[n + 1].arg = <<n - failed, failed>>
        /\ o[n + 1].arg[1] + o[n + 1].arg[2] = n

(* C8: a broadcast makes exactly one send to every user of the table, one
   after the other; a send that raises is counted and the sends go on, so
   that sent + failed is the number of users and failed is the number of
   users whose send raised. *)
C8_BroadcastReachesAll ==
    [][(Ready /\ get_state(user_states, cfg.owner_id) = "awaiting_broadcast") =>
          \A raw \in SentTexts \ (CancelTexts \cup {CMD_START}),
             fails \in SUBSET Ids :
                MessageUpdate(cfg.owner_id, "private", raw, fails)
                => BroadcastResult(out', users', fails)]_vars

C8_Witness ==
    /\ Len(out) = 3
    /\ out[1].text.key = "raw" /\ ~out[1].ok
    /\ out[2].text.key = "raw" /\ out[2].ok
    /\ out[3].text.key = "broadcast_done"
    /\ out[3].arg = <<1, 1>>

(* C9: the file download_media returns was written by a run of a download
   tool that exited with 0. *)
C9_NoFileOfFailedTool == pipe.source /= NoFile => pipe.source.exit = 0

(* The reads of the store that take a user. *)
UserReads == {"has_language", "get_language", "get_format", "get_state"}

(* C10, as claimed: after has_language, get_language, get_format or
   get_state for a user without a profile row, the user has the default
   row. *)
C10_EveryReadUpserts ==
    (ret.op \in UserReads /\ ~ret.known)
        => (ret.uid \in DOMAIN users /\ users[ret.uid] = DefaultProfile)

(* C10, amended: get_language and get_format leave a user without a profile
   row with the default row; has_language and get_state leave such a user
   without a row, and has_language returns false. *)
C10_LanguageAndFormatReadsUpsert ==
    /\ (ret.op \in {"get_language", "get_format"} /\ ~ret.known)
         => (ret.uid \in DOMAIN users /\ users[ret.uid] = DefaultProfile)
    /\ (ret.op = "has_language" /\ ~ret.known)
         => (ret.uid \notin DOMAIN users /\ ret.val = FALSE)
    /\ (ret.op = "get_state" /\ ~ret.known)
         => ret.uid \notin DOMAIN users

C10_Witness ==
    /\ ret.op = "get_format" /\ ~ret.known
    /\ ret.uid \in DOMAIN users
    /\ users[ret.uid] = DefaultProfile

(* The texts of message_handler: what is sent but the command. *)
HandledTexts == SentTexts \ {CMD_START}

(* C11, as claimed: any text of the owner in awaiting_caption becomes the
   caption, character for character, and leaves the owner idle. *)
C11_CaptionVerbatim ==
    [][(Ready /\ get_state(user_states, cfg.owner_id) = "awaiting_caption") =>
          \A raw \in HandledTexts :
              MessageUpdate(cfg.owner_id, "private", raw, {})
              => ( /\ caption' = raw
                   /\ get_state(user_states', cfg.owner_id) = NoState )]_vars

(* C11, amended: a text of the owner in awaiting_caption leaves the owner
   idle; a cancel keyword leaves the caption as it was, and any other text
   becomes the caption without the whitespace around it. *)
C11_CaptionStripped ==
    [][(Ready /\ get_state(user_states, cfg.owner_id) = "awaiting_caption") =>
          \A raw \in HandledTexts :
              MessageUpdate(cfg.owner_id, "private", raw, {})
              => ( /\ get_state(user_states', cfg.owner_id) = NoState
                   /\ caption' = IF raw \in CancelTexts THEN caption
                                 ELSE StripChars(raw)
                   /\ raw \notin CancelTexts
                        => Replied(out', cfg.owner_id, "caption_saved") )]_vars

C11_Witness ==
    /\ Replied(out, cfg.owner_id, "caption_saved")
    /\ caption = TXT_HELLO
    /\ get_state(user_states, cfg.owner_id) = NoState

(* The last call is the menu. *)
MenuShown(o) ==
    /\ Len(o) > 0
    /\ o[Len(o)].call = "reply_text"
    /\ o[Len(o)].text.key = "menu" /\ o[Len(o)].markup.kind = "menu"

(* handle_download raised: the last call is a need_sub notice, a
   "downloading" status or an error report that did not return, and no menu
   follows it. *)
PipelineRaised(o) ==
    /\ Len(o) > 0
    /\ ~o[Len(o)].ok
    /\ o[Len(o)].text.key \in {"need_sub", "downloading", "error"}
    /\ \A i \in DOMAIN o : o[i].text.key /= "menu"

(* A download from a private chat has ended. *)
PrivateRunEnded == pipe.pc = "done" /\ pipe.origin = "private"

(* C12, as claimed: whatever the outcome of the pipeline a link in
   awaiting_url started, the menu is shown once it has ended. *)
C12_MenuAfterEveryOutcome == PrivateRunEnded => MenuShown(out)

(* C12, amended: a text with a URL in awaiting_url starts one pipeline for
   that URL and leaves the user idle; no step of the pipeline starts it
   anew; the user is idle while it runs and when it has ended; it does end;
   and then the menu is shown, unless the need_sub notice, the "downloading"
   status or the error report raised out of handle_download. *)
C12_PipelineThenIdle ==
    /\ [][\A uid \in Ids :
            (Ready /\ get_state(user_states, uid) = "awaiting_url") =>
               (MessageUpdate(uid, "private", TXT_URL, {})
                => ( /\ pipe' = NewPipe(uid, uid, TXT_URL_ONLY,
                                        get_language(users, uid), "private")
                     /\ get_state(user_states', uid) = NoState
                     /\ out' = <<>> ))]_vars
    /\ [][~Ready => ( /\ pipe'.pc /= "gate"
                      /\ pipe'.uid = pipe.uid /\ pipe'.url = pipe.url
                      /\ user_states' = user_states )]_vars
    /\ [](pipe.origin = "private"
            => get_state(user_states, pipe.uid) = NoState)
    /\ [](PrivateRunEnded => (MenuShown(out) \/ PipelineRaised(out)))
    /\ ((pipe.pc = "gate") ~> (pipe.pc = "done"))

C12_Witness ==
    /\ PrivateRunEnded
    /\ MenuShown(out)
    /\ \E i \in DOMAIN out : out[i].call = "send_document" /\ ~out[i].ok
    /\ get_state(user_states, pipe.uid) = NoState

(* A text holds the mention of the bot, in any letter case. *)
HasMention(s) == Contains(LowerChars(s), <<"@">> \o LowerChars(BotUsername))

(* The group texts that lack the mention or the URL. *)
IgnoredGroupTexts == {raw \in GroupTexts : ~HasMention(raw) \/ ~HasUrl(raw)}

(* C13, as claimed: a group message leaves every conversation state as it
   was, and one without the mention or without a URL changes no profile,
   no state and no caption, sends nothing and starts no pipeline. *)
C13_GroupIgnoredEntirely ==
    [][\A uid \in Ids :
         Ready =>
            \A raw \in GroupTexts :
                MessageUpdate(uid, "group", raw, {})
                => ( /\ user_states' = user_states
                     /\ raw \in IgnoredGroupTexts
                          => ( /\ users' = users /\ caption' = caption
                               /\ out' = <<>> /\ pipe'.pc = "idle" ) )]_vars

(* C13, amended: a group message leaves every conversation state, the
   caption and every profile there is as they were, and gives a sender
   without a profile row the default one; what it does is the same in every
   conversation state: with the mention and a URL it starts the pipeline
   for the URL in the group chat, and without one of them it sends nothing
   and starts nothing. *)
C13_GroupLeavesStates ==
    [][\A uid \in Ids :
         Ready =>
            \A raw \in GroupTexts :
                MessageUpdate(uid, "group", raw, {})
                => ( /\ user_states' = user_states
                     /\ caption' = caption
                     /\ DOMAIN users' = DOMAIN users \cup {uid}
                     /\ \A v \in DOMAIN users : users'[v] = users[v]
                     /\ uid \notin DOMAIN users => users'[uid] = DefaultProfile
                     /\ out' = <<>>
                     /\ pipe' = IF raw \in IgnoredGroupTexts THEN IdlePipe
                                ELSE NewPipe(uid, GroupChatId, TXT_URL_ONLY,
                                             get_language(users, uid), "group")
                   )]_vars

C13_Witness ==
    /\ pipe.pc = "gate" /\ pipe.origin = "group"
    /\ get_state(user_states, pipe.uid) = "awaiting_url"
    /\ out = <<>>

(* The profile of a user as the store reads it: the row, or the column
   defaults. *)
Row(U, uid) == IF uid \in DOMAIN U THEN U[uid] ELSE DefaultProfile

(* The value a payload names after "lang:" or "fmt:". *)
Named(payload, kind) ==
    IF Len(payload) = 3 /\ payload[1] = kind /\ payload[2] = ":"
    THEN payload[3] ELSE "?"

(* The row a button press leaves its presser with. *)
RowAfter(row, payload) ==
    IF Named(payload, "lang") \in {"ru", "en"}
    THEN [row EXCEPT !.language = Named(payload, "lang"),
                     !.language_selected = 1]
    ELSE IF Named(payload, "fmt") \in {"auto", "mp4", "mkv", "mp3"}
    THEN [row EXCEPT !.preferred_format = Named(payload, "fmt")]
    ELSE row

(* The first thing a button press is answered with. *)
AnswerKey(payload) ==
    IF payload = <<>> THEN "none"
    ELSE IF payload[1] = "lang"
    THEN IF Named(payload, "lang") \in {"ru", "en"}
         THEN "lang_saved" ELSE "Invalid language"
    ELSE IF payload[1] = "fmt"
    THEN IF Named(payload, "fmt") \in {"auto", "mp4", "mkv", "mp3"}
         THEN "format_saved" ELSE "Invalid format"
    ELSE "none"

(* C14: a press of a language or format button, with callback data of the
   keyboards or other data, leaves every conversation state as it was, and
   what it writes and answers is given by the profiles and the callback
   data alone, whatever the state of the presser. *)
C14_ButtonsLeaveStates ==
    [][\A uid \in Ids :
         Ready =>
            \A payload \in ButtonPayloads, edit_ok \in BOOLEAN :
                CallbackUpdate(uid, payload, edit_ok)
                => ( /\ user_states' = user_states
                     /\ caption' = caption
                     /\ pipe' = IdlePipe
                     /\ DOMAIN users' = DOMAIN users \cup {uid}
                     /\ \A v \in DOMAIN users \ {uid} : users'[v] = users[v]
                     /\ users'[uid] = RowAfter(Row(users, uid), payload)
                     /\ IF AnswerKey(payload) = "none" THEN out' = <<>>
                        ELSE /\ out'[1].text.key = AnswerKey(payload)
                             /\ out'[1].to = uid )]_vars

C14_Witness ==
    \E uid \in Ids :
        /\ get_state(user_states, uid) = "awaiting_url"
        /\ Len(out) = 1 /\ out[1].text.key = "format_saved" /\ out[1].to = uid
        /\ users[uid].preferred_format = "mp3"

(* The state a menu button asks for, of the buttons sent. *)
DownloadButtons == SentTexts \cap {BTN_DOWNLOAD_RU, BTN_DOWNLOAD_EN}
CaptionButtons == SentTexts \cap {BTN_CAPTION_RU, BTN_CAPTION_EN}
BroadcastButtons == SentTexts \cap {BTN_BROADCAST_RU, BTN_BROADCAST_EN}

(* The step is a text of uid in a private chat. *)
OwnPrivateText(uid) ==
    \E raw \in HandledTexts, fails \in SUBSET Ids :
        MessageUpdate(uid, "private", raw, fails)

(* C15: in a private chat the "download" button moves an idle user to
   awaiting_url, and the "edit caption" and "broadcast" buttons move the
   idle owner to awaiting_caption and awaiting_broadcast; the state of a
   user changes with no step but a private text of that user, so that the
   state written is the state the user's next text finds. *)
C15_MenuTransitions ==
    /\ [][\A uid \in Ids :
            (Ready /\ get_state(user_states, uid) = NoState) =>
              /\ \A raw \in DownloadButtons :
                    MessageUpdate(uid, "private", raw, {})
                    => get_state(user_states', uid) = "awaiting_url"
              /\ uid = cfg.owner_id =>
                    /\ \A raw \in CaptionButtons :
                          MessageUpdate(uid, "private", raw, {})
                          => get_state(user_states', uid) = "awaiting_caption"
                    /\ \A raw \in BroadcastButtons :
                          MessageUpdate(uid, "private", raw, {})
                          => get_state(user_states', uid) = "awaiting_broadcast"
         ]_vars
    /\ [][\A uid \in Ids :
            get_state(user_states', uid) /= get_state(user_states, uid)
                => OwnPrivateText(uid)]_vars

C15_Witness ==
    /\ get_state(user_states, cfg.owner_id) = "awaiting_broadcast"
    /\ Replied(out, cfg.owner_id, "ask_broadcast")
    /\ \E uid \in Ids \ {cfg.owner_id} :
          get_state(user_states, uid) = "awaiting_url"

(* A write for uid left the rows of the other users of a table alone. *)
OthersKept(T, Tnew, uid) ==
    \A v \in Ids \ {uid} :
        /\ v \in DOMAIN Tnew <=> v \in DOMAIN T
        /\ v \in DOMAIN T => Tnew[v] = T[v]

(* C16: after clear_state for a user, with a state row or without one,
   get_state for that user returns no state; clear_state for a user without
   a state row can be called and changes nothing, and clear_state leaves
   the states of the other users as they were. *)
C16_ClearThenGet ==
    /\ [][\A uid \in Ids :
            StoreClearState(uid)
            => ( /\ get_state(user_states', uid) = NoState
                 /\ OthersKept(user_states, user_states', uid)
                 /\ uid \notin DOMAIN user_states => user_states' = user_states
               )]_vars
    /\ [][\A uid \in Ids :
            (ret.op = "clear_state" /\ ret.uid = uid)
                => (StoreGetState(uid) => ret'.val = NoState)]_vars
    /\ [](\A uid \in Ids : ENABLED StoreClearState(uid))

C16_Witness ==
    /\ ret.op = "clear_state"
    /\ get_state(user_states, ret.uid) = NoState
    /\ \E v \in Ids \ {ret.uid} : get_state(user_states, v) = "awaiting_url"

(* C17: set_format(id, f) and then get_format(id) returns f, for the four
   formats; set_language(id, l) and then get_language(id) returns l, for ru
   and en; for a user with a profile row and for one without; and the two
   writes leave the rows of the other users as they were. *)
C17_SetThenGet ==
    /\ [][\A uid \in Ids :
            /\ \A f \in Formats :
                  StoreSetFormat(uid, f)
                  => ( /\ get_format(users', uid) = f
                       /\ OthersKept(users, users', uid) )
            /\ \A l \in Languages :
                  StoreSetLanguage(uid, l)
                  => ( /\ get_language(users', uid) = l
                       /\ OthersKept(users, users', uid) )]_vars
    /\ [][\A uid \in Ids :
            /\ (ret.op = "set_format" /\ ret.uid = uid)
                 => (StoreGetFormat(uid) => ret'.val = ret.val)
            /\ (ret.op = "set_language" /\ ret.uid = uid
                    /\ ret.val \in Languages)
                 => (StoreGetLanguage(uid) => ret'.val = ret.val)]_vars

C17_Witness ==
    /\ ret.op = "get_format" /\ ret.val = "mp3"
    /\ \E v \in Ids \ {ret.uid} :
          v \in DOMAIN users /\ users[v].preferred_format = "mkv"
                             /\ users[v].language = "en"

(* C18: with the preset auto, ffmpeg_convert returns its source, whatever
   ffmpeg would do; so in a run for a user whose format is auto the file
   whose size is tested, and the file sent, is the file download_media
   returned. *)
C18_AutoKeepsSource ==
    /\ [][(pipe.pc = "convert" /\ pipe.fmt = "auto") =>
             \A code \in FullEnv.codes, size \in FullEnv.sizes, ok \in BOOLEAN :
                 PipeConvert(code, size, ok)
                 => ( /\ ffmpeg_convert(pipe.source, "auto", code) = pipe.source
                      /\ pipe'.result = pipe.source
                      /\ pipe'.size = size )]_vars
    /\ [](pipe.fmt = "auto" =>
             \A i \in DOMAIN out :
                 out[i].call = "send_document"
                 => (out[i].arg[1] = pipe.source /\ pipe.source /= NoFile))

C18_Witness ==
    /\ pipe.fmt = "auto"
    /\ pipe.source.by = "gallery-dl"
    /\ \E i \in DOMAIN out :
          /\ out[i].call = "send_document" /\ out[i].ok
          /\ out[i].arg[1] = pipe.source

(* The callback data that name a language or a format outside the
   enumerations. *)
InvalidPayloads ==
    {payload \in ButtonPayloads :
        AnswerKey(payload) \in {"Invalid language", "Invalid format"}}

(* C19: every profile row has a language of {ru, en} and a format of
   {auto, mp4, mkv, mp3}; a button press with a language or a format
   outside these is answered as invalid and leaves the language, the
   language_selected flag and the format of the presser as they were. *)
C19_ProfilesInEnumerations ==
    /\ [](\A uid \in DOMAIN users :
             /\ users[uid].language \in Languages
             /\ users[uid].language_selected \in {0, 1}
             /\ users[uid].preferred_format \in Formats)
    /\ [][\A uid \in Ids :
            Ready =>
               \A payload \in InvalidPayloads, edit_ok \in BOOLEAN :
                   CallbackUpdate(uid, payload, edit_ok)
                   => ( /\ Len(out') = 1
                        /\ out'[1].call = "answer"
                        /\ out'[1].text.key = AnswerKey(payload)
                        /\ Row(users', uid) = Row(users, uid)
                        /\ OthersKept(users, users', uid) )]_vars

C19_Witness ==
    /\ Len(out) = 1
    /\ out[1].call = "answer" /\ out[1].text.key = "Invalid language"
    /\ users[out[1].to].language = "en"
    /\ users[out[1].to].preferred_format = "mp3"

(* The step made calls of the broadcast loop. *)
BroadcastSends(o) ==
    \E i \in DOMAIN o : o[i].call = "send_message" /\ o[i].text.key = "raw"

(* C20: no one but the owner is ever in awaiting_caption or in
   awaiting_broadcast; the caption changes with no step but a text of the
   owner in awaiting_caption, and the sends of a broadcast are made by no
   step but a text of the owner in awaiting_broadcast. *)
C20_OwnerOnlyStates ==
    /\ [](\A uid \in Ids \ {cfg.owner_id} :
             get_state(user_states, uid)
                 \notin {"awaiting_caption", "awaiting_broadcast"})
    /\ [][caption' /= caption =>
             ( /\ get_state(user_states, cfg.owner_id) = "awaiting_caption"
               /\ OwnPrivateText(cfg.owner_id) )]_vars
    /\ [][(out' /= out /\ BroadcastSends(out')) =>
             ( /\ get_state(user_states, cfg.owner_id) = "awaiting_broadcast"
               /\ OwnPrivateText(cfg.owner_id) )]_vars

C20_Witness ==
    /\ BroadcastSends(out)
    /\ caption /= <<>>
    /\ \E uid \in Ids \ {cfg.owner_id} :
          get_state(user_states, uid) = "awaiting_url"

(* The menu buttons among the texts sent. *)
MenuButtons ==
    SentTexts \cap {BTN_DOWNLOAD_RU, BTN_DOWNLOAD_EN, BTN_FORMAT_RU,
                    BTN_FORMAT_EN, BTN_LANGUAGE_RU, BTN_LANGUAGE_EN,
                    BTN_HELP_RU, BTN_HELP_EN, BTN_CAPTION_RU, BTN_CAPTION_EN,
                    BTN_BROADCAST_RU, BTN_BROADCAST_EN}

(* What a text is answered with when the awaiting state takes it as its
   input. *)
ConsumedReply(state) ==
    CASE state = "awaiting_url" -> "bad_link"
      [] state = "awaiting_caption" -> "caption_saved"
      [] state = "awaiting_broadcast" -> "broadcast_done"

(* C21: no step takes a user from an awaiting state to another awaiting
   state: the next state is the same state or idle; a menu button sent in
   an awaiting state is taken as the input of that state and is answered as
   such, not as the menu action. *)
C21_NoAwaitingToAwaiting ==
    /\ [][\A uid \in Ids :
            get_state(user_states, uid) \in ConvStates
                => get_state(user_states', uid)
                       \in {get_state(user_states, uid), NoState}]_vars
    /\ [][\A uid \in Ids :
            (Ready /\ get_state(user_states, uid) \in ConvStates) =>
               \A raw \in MenuButtons, fails \in SUBSET Ids :
                   MessageUpdate(uid, "private", raw, fails)
                   => out'[Len(out')].text.key
                         = ConsumedReply(get_state(user_states, uid))]_vars

C21_Witness ==
    /\ Replied(out, cfg.owner_id, "caption_saved")
    /\ caption \in MenuButtons
    /\ get_state(user_states, cfg.owner_id) = NoState

(* The step is a step of handle_download or of the return from it. *)
PipelineStep == ~Ready /\ pipe' /= pipe

(* C22: the pipeline writes no conversation state: the state of the
   requester is cleared by the step that starts the pipeline, before its
   first step, and no step of the pipeline, its end included, changes a
   state, so that a state the user sets while the download is suspended is
   the state there is when it has ended. *)
C22_PipelineLeavesStates ==
    /\ [][PipelineStep => user_states' = user_states]_vars
    /\ [][(pipe'.pc = "gate" /\ pipe.pc /= "gate"
              /\ pipe'.origin = "private")
             => get_state(user_states', pipe'.uid) = NoState]_vars

C22_Witness ==
    /\ pipe.pc = "done" /\ pipe.origin = "private"
    /\ get_state(user_states, pipe.uid) = "awaiting_url"
    /\ \E i \in DOMAIN out : out[i].call = "send_document" /\ out[i].ok
    /\ MenuShown(out)

====
